---- MODULE Spec2Model ----
(***************************************************************************)
(* Model of scripts/bam_frag_coverage.py: the fragment coverage            *)
(* aggregation (_plot_frag_coverage), the resampling helper                *)
(* (_process_ref_coverage), the cov80 score (_calculate_coverage_score)    *)
(* and the main flow of the script (global plot, interval plots,           *)
(* per-reference plots, cov80 tables).                                     *)
(*                                                                         *)
(* Numbers.  A float is kept as an exact fraction <<n, d>> in lowest terms *)
(* with d > 0; <<0, 0>> is NaN (the value numpy gives for 0.0 / 0.0).      *)
(* ln(1 + n/d) is kept as the symbolic term <<n, d, 1>>.  Rounding of      *)
(* floating point sums is not modelled.                                    *)
(***************************************************************************)
EXTENDS Integers, Sequences, FiniteSets, TLC

VARIABLES chrom_lengths, st, args, pc, k, res, call, tables, exc, unit

vars == <<chrom_lengths, st, args, pc, k, res, call, tables, exc, unit>>

\* ---------------------------------------------------------------- bounds
MaxLen == 3
MaxBins == 3
MaxCov == 1
MaxVals == 4

\* ------------------------------------------------------ program constants
DefaultPercent == 80

Refs == {"a", "b", "c"}
RefOrder == <<"a", "b", "c">>

\* Python None as the value of an optional argument, and a supplied value.
None == <<>>
Some(v) == <<v>>
\* Python None as the value of a field of the result dictionary.
PyNone == "None"

\* ------------------------------------------------------------- arithmetic
Abs(n) == IF n < 0 THEN -n ELSE n

RECURSIVE GCD(_, _)
GCD(a, b) == IF b = 0 THEN a ELSE GCD(b, a % b)

NaN == <<0, 0>>
IsNaN(q) == q[2] = 0

\* The float n / d.  The only zero divisor the script can meet is the sum
\* of an all-zero vector, which divides 0.0 by 0.0.
Rat(n, d) ==
    IF d = 0 THEN NaN
    ELSE LET g == GCD(Abs(n), Abs(d))
             s == IF d < 0 THEN -1 ELSE 1
         IN  <<(s * n) \div g, (s * d) \div g>>

Zero == Rat(0, 1)
Float(n) == Rat(n, 1)

RAdd(p, q) == IF IsNaN(p) \/ IsNaN(q) THEN NaN
              ELSE Rat(p[1] * q[2] + q[1] * p[2], p[2] * q[2])
RSub(p, q) == IF IsNaN(p) \/ IsNaN(q) THEN NaN
              ELSE Rat(p[1] * q[2] - q[1] * p[2], p[2] * q[2])
RMul(p, q) == IF IsNaN(p) \/ IsNaN(q) THEN NaN
              ELSE Rat(p[1] * q[1], p[2] * q[2])
RDiv(p, q) == IF IsNaN(p) \/ IsNaN(q) THEN NaN
              ELSE Rat(p[1] * q[2], p[2] * q[1])
\* Comparisons with NaN are false, as in IEEE arithmetic.
RLess(p, q) == ~IsNaN(p) /\ ~IsNaN(q) /\ p[1] * q[2] < q[1] * p[2]
RLeq(p, q) == ~IsNaN(p) /\ ~IsNaN(q) /\ p[1] * q[2] <= q[1] * p[2]

\* ------------------------------------------------------------------ numpy
np_arange(n) == [i \in 1..n |-> Float(i - 1)]
np_zeros(n) == [i \in 1..n |-> Zero]
astype_float(cov) == [i \in 1..Len(cov) |-> Float(cov[i])]
np_div(v, q) == [i \in 1..Len(v) |-> RDiv(v[i], q)]

RECURSIVE np_sum(_)
np_sum(v) == IF v = <<>> THEN Zero ELSE RAdd(Head(v), np_sum(Tail(v)))

RECURSIVE IntSum(_)
IntSum(v) == IF v = <<>> THEN 0 ELSE Head(v) + IntSum(Tail(v))

\* np.interp for one point: constant outside [xp[1], xp[n]], linear inside.
interp_point(xv, xp, fp) ==
    LET n == Len(xp) IN
    IF n = 1 THEN fp[1]
    ELSE IF RLess(xv, xp[1]) THEN fp[1]
    ELSE IF RLeq(xp[n], xv) THEN fp[n]
    ELSE LET j == CHOOSE i \in 1..(n - 1) : RLeq(xp[i], xv) /\ RLess(xv, xp[i + 1])
             slope == RDiv(RSub(fp[j + 1], fp[j]), RSub(xp[j + 1], xp[j]))
         IN  RAdd(RMul(slope, RSub(xv, xp[j])), fp[j])

np_interp(x, xp, fp) == [i \in 1..Len(x) |-> interp_point(x[i], xp, fp)]

\* np.log(v + 1.0), elementwise.
Ln1p(q) == IF IsNaN(q) THEN NaN ELSE IF q = Zero THEN Zero ELSE <<q[1], q[2], 1>>
np_log1p(v) == [i \in 1..Len(v) |-> Ln1p(v[i])]

\* ------------------------------------------------- _process_ref_coverage
\* Scale reference position and coverage.
process_ref_coverage(cov, strand, scale_pos, scale_cov) ==
    LET x0 == np_arange(Len(cov))
        x  == IF scale_pos THEN np_div(x0, Float(Len(x0))) ELSE x0
        y0 == astype_float(cov)
        y  == IF scale_cov THEN np_div(y0, np_sum(y0)) ELSE y0
    IN  [x |-> x, y |-> y]

\* --------------------------------------------- _calculate_coverage_score
\* data > percent, for one element.
above_ge(v, percent) == RLeq(percent, v)
above(v, percent) == RLess(percent, v)

\* len(data): a division by it raises ZeroDivisionError when it is zero.
score_raises(data) == Len(data) = 0

calculate_coverage_score(data, percent_arg) ==
    LET percent == RDiv(Float(percent_arg), Float(100))
        Sel(v) == above(v, percent)
    IN  Rat(Len(SelectSeq(data, Sel)), Len(data))

\* --------------------------------------------------- _plot_frag_coverage
\* list(chroms.values())
dict_values(chroms) == [i \in 1..Len(chroms.keys) |-> chroms.val[chroms.keys[i]]]

\* np.mean: NaN (with a warning) for an empty list.
np_mean(values) == Rat(IntSum(values), Len(values))

\* int(float): truncation towards zero.
py_int_round(q) == (2 * q[1] + q[2]) \div (2 * q[2])
py_int(q) == IF q[1] >= 0 THEN q[1] \div q[2] ELSE -((-q[1]) \div q[2])

\* bins = int(np.mean(list(chroms.values()))); int(NaN) raises ValueError.
auto_bins_raises(chroms) == IsNaN(np_mean(dict_values(chroms)))
auto_bins(chroms) == py_int(np_mean(dict_values(chroms)))

\* cov_fwd += np.interp(...)
iadd_overwrite(acc, v) == v
iadd_append(acc, v) == acc \o v
iadd(acc, v) == [i \in 1..Len(acc) |-> RAdd(acc[i], v[i])]

\* The loop over chroms.keys(), one reference per step.
RECURSIVE accumulate(_, _, _, _, _, _)
accumulate(stats, keys, x, scale_pos, scale_cov, acc) ==
    IF keys = <<>> THEN acc
    ELSE LET chrom == Head(keys)
             ref_cov == acc.ref_cov \o stats.ref_cov[chrom]
             cov_fwd ==
                 IF chrom \in DOMAIN stats.frags_fwd
                 THEN LET f == process_ref_coverage(stats.frags_fwd[chrom], "fwd",
                                                    scale_pos, scale_cov)
                      IN  iadd(acc.cov_fwd, np_interp(x, f.x, f.y))
                 ELSE acc.cov_fwd
             cov_rev ==
                 IF chrom \in DOMAIN stats.frags_rev
                 THEN LET r == process_ref_coverage(stats.frags_rev[chrom], "rev",
                                                    scale_pos, scale_cov)
                      IN  iadd(acc.cov_rev, np_interp(x, r.x, r.y))
                 ELSE acc.cov_rev
         IN  accumulate(stats, Tail(keys), x, scale_pos, scale_cov,
                        [cov_fwd |-> cov_fwd, cov_rev |-> cov_rev, ref_cov |-> ref_cov])

\* (np.sum(cov_fwd) + np.sum(cov_rev)) == 0
no_data_never(cov_fwd, cov_rev) == RLess(RAdd(np_sum(cov_fwd), np_sum(cov_rev)), Zero)
no_data(cov_fwd, cov_rev) == RAdd(np_sum(cov_fwd), np_sum(cov_rev)) = Zero

\* The dictionary returned when there is no coverage.
Sentinel == [global_cov_fwd |-> PyNone, global_cov_rev |-> PyNone, ref_cov |-> PyNone]

\* The dictionary returned otherwise.
profile_plotted(cov_fwd, cov_rev, plot_fwd, plot_rev, ref_cov, cov80_score) ==
    [global_cov_fwd |-> plot_fwd, global_cov_rev |-> plot_rev,
     ref_cov |-> ref_cov, cov80 |-> cov80_score]
profile(cov_fwd, cov_rev, plot_fwd, plot_rev, ref_cov, cov80_score) ==
    [global_cov_fwd |-> cov_fwd, global_cov_rev |-> cov_rev,
     ref_cov |-> ref_cov, cov80 |-> cov80_score]

\* The part of the function after the loop: the no-data test, the log
\* transform, the two plotted lines, the score and the returned dictionary.
after_loop(acc, log_scale) ==
    IF no_data(acc.cov_fwd, acc.cov_rev)
    THEN [raised |-> "none", ret |-> Sentinel, lines |-> <<>>]
    ELSE IF score_raises(acc.ref_cov) THEN [raised |-> "ZeroDivisionError"]
    ELSE LET plot_fwd == IF log_scale THEN np_log1p(acc.cov_fwd) ELSE acc.cov_fwd
             plot_rev == IF log_scale THEN np_log1p(acc.cov_rev) ELSE acc.cov_rev
         IN  [raised |-> "none",
              ret |-> profile(acc.cov_fwd, acc.cov_rev, plot_fwd, plot_rev, acc.ref_cov,
                              calculate_coverage_score(acc.ref_cov, DefaultPercent)),
              lines |-> <<plot_fwd, plot_rev>>]

\* The outcome of one call: the exception raised, or the dictionary returned
\* and the two lines handed to the plotter.
plot_frag_coverage(stats, chroms, scale_pos, scale_cov, bins_arg, log_scale) ==
    IF bins_arg = None /\ auto_bins_raises(chroms) THEN [raised |-> "ValueError"]
    ELSE LET bins == IF bins_arg = None THEN auto_bins(chroms) ELSE bins_arg[1]
             X == np_arange(bins)
         \* (bound through singleton sets, so that the loop is evaluated once)
         IN  CHOOSE out \in
                 {after_loop(acc, log_scale) :
                     acc \in {accumulate(stats, chroms.keys, x, scale_pos, scale_cov,
                                         [cov_fwd |-> np_zeros(bins),
                                          cov_rev |-> np_zeros(bins),
                                          ref_cov |-> <<>>]) :
                                 x \in {np_div(X, Float(Len(X)))}}} : TRUE

\* ------------------------------------------------------------ input data
\* Coverage vectors of a reference of length n, as bam_stats.frag_coverage
\* hands them over: one count per base.
Vec(shape, n) ==
    CASE shape = "zero" -> [i \in 1..n |-> 0]
      [] shape = "flat" -> [i \in 1..n |-> 2]
      [] shape = "ramp" -> [i \in 1..n |-> i]

\* What a reference has on the forward and on the reverse strand, and its
\* per-fragment reference coverage.
Kinds == {"no_entry", "silent", "both", "rev_only"}
FwdShape(kind) == CASE kind = "silent" -> "zero" [] kind = "both" -> "ramp"
RevShape(kind) == CASE kind = "both" -> "flat" [] kind = "rev_only" -> "ramp"
HasFwd(kind) == kind \in {"silent", "both"}
HasRev(kind) == kind \in {"both", "rev_only"}
RefCov(kind) ==
    CASE kind = "both" -> <<Rat(9, 10), Rat(4, 5)>>
      [] kind = "rev_only" -> <<Rat(1, 2)>>
      [] OTHER -> <<>>

Stats(lens, kind) ==
    [frags_fwd |-> [r \in {q \in Refs : HasFwd(kind[q])} |-> Vec(FwdShape(kind[r]), lens[r])],
     frags_rev |-> [r \in {q \in Refs : HasRev(kind[q])} |-> Vec(RevShape(kind[r]), lens[r])],
     ref_cov   |-> [r \in Refs |-> RefCov(kind[r])]]

\* Reference lengths, in the order of the FASTA file.
Lengths == {l \in [Refs -> 1..MaxLen] : l["a"] <= l["b"] /\ l["b"] <= l["c"]}
ScriptLengths == {l \in Lengths : l["a"] = l["b"] \/ l["b"] = l["c"]}

\* -b: absent, or a number of bins.
BinArgs == {None} \cup {Some(n) : n \in 1..MaxBins}

\* -i, after parse_util.interval_string_to_tuples.
Intervals == {<<lo, hi>> : lo \in {1, MaxLen}, hi \in {0, 2}}
IntervalLists == {<<>>, << <<1, 2>>, <<2, 0>> >>} \cup {<<iv>> : iv \in Intervals}

\* -x, -l, -g.
FlagSets == {<<FALSE, FALSE, FALSE>>, <<TRUE, TRUE, FALSE>>,
             <<FALSE, FALSE, TRUE>>, <<TRUE, TRUE, TRUE>>}

KindMaps == [Refs -> Kinds]
AggKindMaps == {m \in KindMaps : m["c"] \in {"no_entry", "both"}}
ScriptKindMaps == {m \in KindMaps : /\ m["b"] = m["c"]
                                    /\ m["b"] \in {"no_entry", "silent", "both"}
                                    /\ m["a"] \in {m["b"], "no_entry"}}

NoArgs == [b |-> None, o |-> FALSE, x |-> FALSE, l |-> FALSE, g |-> FALSE, i |-> <<>>]
NoCall == [kind |-> "none"]
NoRes == [global_cov |-> Sentinel, chrom_covs |-> <<>>]
NoTables == [l |-> None, g |-> None]
NoUnit == [op |-> "none"]

\* ------------------------------------------------------------- the script
\* One call of _plot_frag_coverage as the script makes it (scale_pos and
\* scale_cov are left at their defaults), with its arguments kept.
Invoke(kind, arg, chroms, bins_arg, log_scale) ==
    [kind |-> kind, arg |-> arg, chroms |-> chroms, bins |-> bins_arg,
     log_scale |-> log_scale,
     out |-> plot_frag_coverage(st, chroms, TRUE, FALSE, bins_arg, log_scale)]

\* A dictionary restricted to some of its keys, the order kept.
Restrict(chroms, S) ==
    LET In(r) == r \in S
    IN  [keys |-> SelectSeq(chroms.keys, In),
         val  |-> [r \in {q \in DOMAIN chroms.val : q \in S} |-> chroms.val[r]]]

\* The references of chrom_lengths that the interval loop keeps.
in_interval(length, interval) ==
    ~(length < interval[1]) /\ ~(interval[2] # 0 /\ length > interval[2])

int_chroms(chroms, interval) ==
    Restrict(chroms, {r \in DOMAIN chroms.val : in_interval(chroms.val[r], interval)})

\* _get_coverage
get_coverage(chrom, stats) ==
    (IF chrom \in DOMAIN stats.frags_fwd THEN IntSum(stats.frags_fwd[chrom]) ELSE 0)
    + (IF chrom \in DOMAIN stats.frags_rev THEN IntSum(stats.frags_rev[chrom]) ELSE 0)

\* sorted(keys, key=coverage, reverse=True): stable, highest coverage first.
RECURSIVE insert_sorted(_, _, _)
insert_sorted(sorted, chrom, stats) ==
    IF sorted = <<>> THEN <<chrom>>
    ELSE IF get_coverage(Head(sorted), stats) >= get_coverage(chrom, stats)
         THEN <<Head(sorted)>> \o insert_sorted(Tail(sorted), chrom, stats)
         ELSE <<chrom>> \o sorted

RECURSIVE sorted_chroms(_, _)
sorted_chroms(keys, stats) ==
    IF keys = <<>> THEN <<>>
    ELSE insert_sorted(sorted_chroms(SubSeq(keys, 1, Len(keys) - 1), stats),
                       keys[Len(keys)], stats)

AfterIntervals == "sort"

Init ==
    /\ \E lens \in ScriptLengths, kind \in ScriptKindMaps :
          /\ chrom_lengths = [keys |-> RefOrder, val |-> lens]
          /\ st = Stats(lens, kind)
    /\ \E b \in BinArgs, o \in BOOLEAN, f \in FlagSets, i \in IntervalLists :
          args = [b |-> b, o |-> o, x |-> f[1], l |-> f[2], g |-> f[3], i |-> i]
    /\ pc = "global"
    /\ k = 1
    /\ res = NoRes
    /\ call = NoCall
    /\ tables = NoTables
    /\ exc = "none"
    /\ unit = NoUnit

\* res['global_cov'] = _plot_frag_coverage(st, chrom_lengths, ..., bins=args.b)
PlotGlobal ==
    /\ pc = "global"
    /\ \E c \in {Invoke("global", <<>>, chrom_lengths, args.b, ~args.o)} :
          /\ call' = c
          /\ IF c.out.raised # "none"
             THEN /\ exc' = c.out.raised
                  /\ pc' = "crashed"
                  /\ res' = res
             ELSE /\ exc' = exc
                  /\ pc' = IF Len(args.i) = 0 THEN AfterIntervals ELSE "intervals"
                  /\ res' = [res EXCEPT !.global_cov = c.out.ret]
    /\ UNCHANGED <<chrom_lengths, st, args, k, tables, unit>>

\* One pass of "for interval in intervals": filter, then plot.
PlotInterval ==
    /\ pc = "intervals"
    /\ k <= Len(args.i)
    /\ \E c \in {Invoke("interval", args.i[k], int_chroms(chrom_lengths, args.i[k]),
                       args.b, ~args.o)} :
          /\ call' = c
          /\ IF c.out.raised # "none"
             THEN /\ exc' = c.out.raised
                  /\ pc' = "crashed"
                  /\ k' = k
             ELSE /\ exc' = exc
                  /\ pc' = IF k = Len(args.i) THEN AfterIntervals ELSE "intervals"
                  /\ k' = IF k = Len(args.i) THEN 1 ELSE k + 1
    /\ UNCHANGED <<chrom_lengths, st, args, res, tables, unit>>

\* if args.x: sort the references by coverage.
SortChroms ==
    /\ pc = "sort"
    /\ args.x
    /\ chrom_lengths' = [chrom_lengths EXCEPT !.keys = sorted_chroms(chrom_lengths.keys, st)]
    /\ pc' = "chroms"
    /\ k' = 1
    /\ UNCHANGED <<st, args, res, call, tables, exc, unit>>

\* Without -x no per-reference plot is made.
SkipChroms ==
    /\ pc = "sort"
    /\ ~args.x
    /\ pc' = "cov80_tsv"
    /\ UNCHANGED <<chrom_lengths, st, args, k, res, call, tables, exc, unit>>

\* One pass of "for chrom, length in tr_iter".
PlotChrom ==
    /\ pc = "chroms"
    /\ k <= Len(chrom_lengths.keys)
    /\ \E chrom \in {chrom_lengths.keys[k]} :
       \E c \in {Invoke("chrom", <<chrom>>, Restrict(chrom_lengths, {chrom}), None, ~args.o)} :
          /\ call' = c
          /\ IF c.out.raised # "none"
             THEN /\ exc' = c.out.raised
                  /\ pc' = "crashed"
                  /\ k' = k
                  /\ res' = res
             ELSE /\ exc' = exc
                  /\ pc' = IF k = Len(chrom_lengths.keys) THEN "cov80_tsv" ELSE "chroms"
                  /\ k' = IF k = Len(chrom_lengths.keys) THEN 1 ELSE k + 1
                  /\ res' = [res EXCEPT !.chrom_covs = Append(@, <<chrom, c.out.ret>>)]
    /\ UNCHANGED <<chrom_lengths, st, args, tables, unit>>

\* if args.l is not None: the per-reference table.
cov80_row(entry) ==
    <<entry[1], IF "cov80" \in DOMAIN entry[2] THEN entry[2].cov80 ELSE Zero>>

WriteCov80 ==
    /\ pc = "cov80_tsv"
    /\ tables' = IF args.l
                 THEN [tables EXCEPT !.l = Some([n \in 1..Len(res.chrom_covs) |->
                                                   cov80_row(res.chrom_covs[n])])]
                 ELSE tables
    /\ pc' = "glob_cov80_tsv"
    /\ UNCHANGED <<chrom_lengths, st, args, k, res, call, exc, unit>>

\* if args.g is not None: the global table; res['global_cov']['cov80'] raises
\* KeyError when the dictionary has no such key.
WriteGlobCov80 ==
    /\ pc = "glob_cov80_tsv"
    /\ IF args.g /\ "cov80" \notin DOMAIN res.global_cov
       THEN /\ exc' = "KeyError"
            /\ pc' = "crashed"
            /\ tables' = tables
       ELSE /\ exc' = exc
            /\ pc' = "done"
            /\ tables' = IF args.g
                         THEN [tables EXCEPT !.g = Some(<<res.global_cov.cov80>>)]
                         ELSE tables
    /\ UNCHANGED <<chrom_lengths, st, args, k, res, call, unit>>

Next ==
    \/ PlotGlobal
    \/ PlotInterval
    \/ SortChroms
    \/ SkipChroms
    \/ PlotChrom
    \/ WriteCov80
    \/ WriteGlobCov80

Spec == Init /\ [][Next]_vars

\* ------------------------------------- _plot_frag_coverage called directly
\* Every sequence of distinct references: the keys of a dictionary of
\* references, in every iteration order.
Orders ==
    {keys \in UNION {[1..n -> Refs] : n \in 0..Cardinality(Refs)} :
        \A m, n \in 1..Len(keys) : m # n => keys[m] # keys[n]}

Range(seq) == {seq[n] : n \in 1..Len(seq)}

InitAgg ==
    /\ \E lens \in Lengths, kind \in AggKindMaps :
          /\ chrom_lengths = [keys |-> RefOrder, val |-> lens]
          /\ st = Stats(lens, kind)
    /\ args = NoArgs
    /\ pc = "call"
    /\ k = 1
    /\ res = NoRes
    /\ call = NoCall
    /\ tables = NoTables
    /\ exc = "none"
    /\ unit = NoUnit

\* One call on some of the references, iterated in some order.
Aggregate ==
    /\ pc = "call"
    /\ \E keys \in Orders, b \in BinArgs, log_scale \in BOOLEAN :
          call' = Invoke("direct", <<>>,
                         [keys |-> keys, val |-> [r \in Range(keys) |-> chrom_lengths.val[r]]],
                         b, log_scale)
    /\ pc' = "returned"
    /\ UNCHANGED <<chrom_lengths, st, args, k, res, tables, exc, unit>>

NextAgg == Aggregate

SpecAgg == InitAgg /\ [][NextAgg]_vars

\* ----------------------------------------- the two helpers called directly
ScoreValues == {Rat(1, 2), Rat(4, 5), Rat(9, 10), Rat(1, 1), Rat(3, 2)}
ScoreData == UNION {[1..n -> ScoreValues] : n \in 0..MaxVals}
PercentArgs == {None, Some(50), Some(100)}
CovVectors == UNION {[1..n -> 0..MaxCov] : n \in 1..MaxLen}

InitFn ==
    /\ \/ \E data \in ScoreData, percent \in PercentArgs :
             unit = [op |-> "score", data |-> data, percent |-> percent, done |-> FALSE]
       \/ \E cov \in CovVectors, strand \in {"fwd", "rev"},
             scale_pos \in BOOLEAN, scale_cov \in BOOLEAN :
             unit = [op |-> "process", cov |-> cov, strand |-> strand,
                     scale_pos |-> scale_pos, scale_cov |-> scale_cov, done |-> FALSE]
    /\ chrom_lengths = [keys |-> <<>>, val |-> <<>>]
    /\ st = Stats([r \in Refs |-> 1], [r \in Refs |-> "no_entry"])
    /\ args = NoArgs
    /\ pc = "call"
    /\ k = 1
    /\ res = NoRes
    /\ call = NoCall
    /\ tables = NoTables
    /\ exc = "none"

\* _calculate_coverage_score(data) or _calculate_coverage_score(data, percent)
Percent(percent_opt) == IF percent_opt = None THEN DefaultPercent ELSE percent_opt[1]

CallScore ==
    /\ pc = "call"
    /\ unit.op = "score"
    /\ unit' = [op |-> "score", data |-> unit.data, percent |-> unit.percent, done |-> TRUE,
                raised |-> IF score_raises(unit.data) THEN "ZeroDivisionError" ELSE "none",
                out |-> calculate_coverage_score(unit.data, Percent(unit.percent))]
    /\ pc' = "returned"
    /\ UNCHANGED <<chrom_lengths, st, args, k, res, call, tables, exc>>

CallProcess ==
    /\ pc = "call"
    /\ unit.op = "process"
    /\ unit' = [op |-> "process", cov |-> unit.cov, strand |-> unit.strand,
                scale_pos |-> unit.scale_pos, scale_cov |-> unit.scale_cov, done |-> TRUE,
                out |-> process_ref_coverage(unit.cov, unit.strand,
                                             unit.scale_pos, unit.scale_cov)]
    /\ pc' = "returned"
    /\ UNCHANGED <<chrom_lengths, st, args, k, res, call, tables, exc>>

NextFn == CallScore \/ CallProcess

SpecFn == InitFn /\ [][NextFn]_vars

\* ------------------------------------------------------------ properties
Keys == call.chroms.keys
Direct == call.kind = "direct"
\* The call returned a dictionary (it raised nothing).
Returned == call.out.raised = "none"
\* The call returned a profile, not the no-data dictionary.
ReturnedProfile == Returned /\ call.out.ret # Sentinel

AllZero(cov) == \A n \in 1..Len(cov) : cov[n] = 0
\* No reference of the call has an entry with coverage, on either strand.
NoCoverage ==
    \A r \in Range(Keys) :
        /\ r \in DOMAIN st.frags_fwd => AllZero(st.frags_fwd[r])
        /\ r \in DOMAIN st.frags_rev => AllZero(st.frags_rev[r])

\* C1: a call on a non-empty reference set in which no reference has any
\* coverage (no entry, or all-zero vectors) returns the no-data dictionary,
\* whose profile fields are None, and raises nothing.
C1_NoDataSentinel ==
    (Direct /\ Len(Keys) > 0 /\ NoCoverage)
        => /\ Returned
           /\ call.out.ret = Sentinel
           /\ call.out.ret.global_cov_fwd = PyNone
           /\ call.out.ret.global_cov_rev = PyNone

C1_Witness ==
    /\ Direct /\ Len(Keys) > 1 /\ NoCoverage
    /\ \E r \in Range(Keys) : r \in DOMAIN st.frags_fwd
    /\ \E r \in Range(Keys) : r \notin DOMAIN st.frags_fwd /\ r \notin DOMAIN st.frags_rev
    /\ Returned /\ call.out.ret = Sentinel

\* C2: on a non-empty sequence the score is the number of elements strictly
\* greater than percent/100 divided by the number of elements, percent being
\* 80 when it is not given.
CountAbove(data, percent) ==
    Cardinality({n \in 1..Len(data) : 100 * data[n][1] > percent * data[n][2]})

C2_ScoreIsFractionAbove ==
    (unit.op = "score" /\ unit.done /\ Len(unit.data) > 0)
        => /\ unit.raised = "none"
           /\ LET percent == IF unit.percent = None THEN 80 ELSE unit.percent[1]
                  count == CountAbove(unit.data, percent)
              IN  /\ ~IsNaN(unit.out)
                  /\ unit.out[1] * Len(unit.data) = count * unit.out[2]

C2_Witness ==
    /\ unit.op = "score" /\ unit.done
    /\ unit.percent = None
    /\ unit.data = <<Rat(1, 2), Rat(9, 10), Rat(1, 1), Rat(3, 2)>>
    /\ unit.out = Rat(3, 4)

\* The number of bins of the call: the one supplied, or the one computed.
Bins == IF call.bins = None THEN auto_bins(call.chroms) ELSE call.bins[1]
Contributing == {r \in Range(Keys) : r \in DOMAIN st.frags_fwd \/ r \in DOMAIN st.frags_rev}

\* C3 as stated: every call returns cov_fwd and cov_rev of length bins.
C3_EveryCallLengthBins ==
    (Direct /\ Len(Keys) > 0)
        => /\ ReturnedProfile
           /\ Len(call.out.ret.global_cov_fwd) = Bins
           /\ Len(call.out.ret.global_cov_rev) = Bins

\* C3, amended: every call that returns a profile (the reference set has
\* coverage) returns cov_fwd and cov_rev of length bins, however many of
\* the references contribute.
C3_ProfileLengthBins ==
    (Direct /\ ReturnedProfile)
        => /\ Len(call.out.ret.global_cov_fwd) = Bins
           /\ Len(call.out.ret.global_cov_rev) = Bins

C3_Witness ==
    /\ Direct /\ ReturnedProfile
    /\ Len(Keys) = 3 /\ Cardinality(Contributing) = 1
    /\ call.bins = Some(2)
    /\ Len(call.out.ret.global_cov_fwd) = 2
    /\ Len(call.out.ret.global_cov_rev) = 2

\* The lengths of the references of the call, summed.
TotalLength == IntSum(dict_values(call.chroms))

\* C5 as stated: without bins the mean reference length rounded to the
\* nearest integer is used, and a supplied bins overrides it.
C5_BinsRoundedMean ==
    (Direct /\ ReturnedProfile)
        => LET n == Len(call.out.ret.global_cov_fwd) IN
           IF call.bins = None
           THEN /\ 2 * n * Len(Keys) <= 2 * TotalLength + Len(Keys)
                /\ 2 * n * Len(Keys) >= 2 * TotalLength - Len(Keys)
           ELSE n = call.bins[1]

\* C5, amended: without bins the mean reference length truncated to an
\* integer is used (2, 3, 3 give 2), and a supplied bins overrides it.
C5_BinsTruncatedMean ==
    (Direct /\ ReturnedProfile)
        => LET n == Len(call.out.ret.global_cov_fwd) IN
           IF call.bins = None
           THEN /\ n * Len(Keys) <= TotalLength
                /\ TotalLength < (n + 1) * Len(Keys)
           ELSE n = call.bins[1]

C5_Witness ==
    /\ Direct /\ ReturnedProfile
    /\ call.bins = None
    /\ Len(Keys) = 3
    /\ TotalLength = 8
    /\ Len(call.out.ret.global_cov_fwd) = 2

Contribution(cov, bins) ==
    LET p == process_ref_coverage(cov, "fwd", TRUE, FALSE)
    IN  np_interp(np_div(np_arange(bins), Float(bins)), p.x, p.y)

\* The sum over a set of references, bin by bin.
RECURSIVE SumOver(_, _, _)
SumOver(S, frags, bins) ==
    IF S = {} THEN [n \in 1..bins |-> Zero]
    ELSE LET r == CHOOSE q \in S : TRUE
             rest == SumOver(S \ {r}, frags, bins)
             mine == Contribution(frags[r], bins)
         IN  [n \in 1..bins |-> RAdd(rest[n], mine[n])]

\* C8: in whatever order the references are iterated, each bin of cov_fwd
\* and cov_rev holds the sum of what the references with an entry for that
\* strand contribute; a reference without an entry adds nothing.
C8_SumOfContributions ==
    (Direct /\ ReturnedProfile)
        => \E bins \in {Bins} :
              /\ call.out.ret.global_cov_fwd
                    = SumOver(Range(Keys) \cap DOMAIN st.frags_fwd, st.frags_fwd, bins)
              /\ call.out.ret.global_cov_rev
                    = SumOver(Range(Keys) \cap DOMAIN st.frags_rev, st.frags_rev, bins)

C8_Witness ==
    /\ Direct /\ ReturnedProfile
    /\ Keys = <<"c", "a", "b">>
    /\ Cardinality(Range(Keys) \cap DOMAIN st.frags_rev) = 2
    /\ Cardinality(Range(Keys) \cap DOMAIN st.frags_fwd) = 1
    /\ chrom_lengths.val["a"] < chrom_lengths.val["c"]
    /\ call.bins = Some(2)
    /\ np_sum(call.out.ret.global_cov_rev) # Zero

\* C4 as stated: a call on an empty reference set raises an error, whether
\* bins is supplied or not.
C4_EmptySetRaises ==
    (call.kind = "interval" /\ Len(Keys) = 0) => call.out.raised # "none"

\* C7 as stated: with scale_cov an all-zero vector is returned unchanged.
C7_ZeroSumGuarded ==
    (unit.op = "process" /\ unit.done /\ unit.scale_cov /\ AllZero(unit.cov))
        => unit.out.y = astype_float(unit.cov)

\* C9 as stated: a run with -g ends without error and with a global table of
\* one value, also when the global aggregation had no data (here for runs
\* without -i and -x, which make no other call).
C9_GlobalTableWritten ==
    (pc \in {"done", "crashed"} /\ args.g /\ args.i = <<>> /\ ~args.x)
        => /\ exc = "none"
           /\ tables.g # None
           /\ Len(tables.g[1]) = 1

\* C10 as stated: the interval call gets the references with lo <= L < hi
\* (hi = 0: no upper bound).
C10_IntervalHalfOpen ==
    call.kind = "interval"
        => Range(Keys) = {r \in Refs : /\ call.arg[1] <= chrom_lengths.val[r]
                                       /\ (call.arg[2] = 0 \/ chrom_lengths.val[r] < call.arg[2])}

====
